---- MODULE Spec2Model ----
(***************************************************************************)
(* A model of dppy/approximate_sampling.py: the three discrete MCMC        *)
(* samplers (add_exchange_delete_sampler, add_delete_sampler,              *)
(* basis_exchange_sampler) and the zonotope sampler (zono_sampling with    *)
(* extract_basis).                                                         *)
(*                                                                         *)
(* Modelling conventions                                                   *)
(*  - A sample is a Python list of indices: a sequence of 0-based ground   *)
(*    set elements.  A size-1 array returned by np.random.choice(.., 1) is *)
(*    identified with its single element.                                  *)
(*  - The free name K read by the discrete samplers is the kernel argument;*)
(*    the free name s_init read by add_exchange_delete_sampler is a        *)
(*    module-level value fixed for the whole call.                         *)
(*  - Kernels and feature matrices have small integer entries, so that     *)
(*    np.linalg.det is exact and a determinant is an integer.              *)
(*  - np.random.rand() returns u = a / Denom with a in 0 .. Denom-1, and   *)
(*    every comparison of u with a float expression is done exactly, by    *)
(*    cross-multiplication, with IEEE semantics for a division by 0.0      *)
(*    (x/0.0 is +inf, -inf or nan, and no comparison with nan holds).      *)
(*  - time.time() - t_start is read in ticks; the variable clock holds the  *)
(*    last value read (0 at t_start), and a later reading is never smaller.*)
(***************************************************************************)
EXTENDS Integers, Sequences, FiniteSets, TLC

\* Bounds of the model
MaxIt == 3          \* nb_it_max ranges over 0 .. MaxIt
MaxT == 2           \* T_max is 0 or MaxT ticks; the clock is read up to MaxT
Denom == 4          \* np.random.rand() ranges over {0, 1/Denom, .., (Denom-1)/Denom}
Q == 2              \* the zonotope is gridded in steps of 1/Q

\* Inputs of a call (never assigned by the samplers)
VARIABLES fn, kernel, s_init, nb_it_max, T_max, Vectors, c
\* Locals of the running call
VARIABLES pc, attempt, r0, S0, det_S0, sampl_size, samples,
          x0, B_x0, det_B_x0, Bases, it, flag, clock
\* The proposal made by the last iteration (history variable), and a second
\* run of the same call on the same inputs (used by SpecPair only)
VARIABLES move, other
\* The list objects of a discrete sampler and the names bound to them (used by
\* SpecHeap only)
VARIABLE heap

inputs == <<fn, kernel, s_init, nb_it_max, T_max, Vectors, c>>
locals == <<pc, attempt, r0, S0, det_S0, sampl_size, samples,
            x0, B_x0, det_B_x0, Bases, it, flag, clock, move>>
vars == <<inputs, locals, other, heap>>

-----------------------------------------------------------------------------
\* Python list operations on a sample

\* v in lst
Contains(lst, v) == \E i \in 1..Len(lst) : lst[i] = v

\* del lst[i]  (i a 0-based position)
DelAt(lst, i) == [j \in 1..(Len(lst) - 1) |-> IF j <= i THEN lst[j] ELSE lst[j + 1]]

\* lst.remove(v): removes the first occurrence of v
ListRemove(lst, v) ==
  LET first == CHOOSE i \in 1..Len(lst) :
                 lst[i] = v /\ \A j \in 1..(i - 1) : lst[j] # v
  IN DelAt(lst, first - 1)

\* lst[i] = v  (i a 0-based position)
SetAt(lst, i, v) == [lst EXCEPT ![i + 1] = v]

\* the ascending list of the elements of a set of integers
RECURSIVE SortedSeq(_)
SortedSeq(set) ==
  IF set = {} THEN <<>>
  ELSE LET m == CHOOSE x \in set : \A y \in set : x <= y
       IN <<m>> \o SortedSeq(set \ {m})

Elems(lst) == {lst[i] : i \in 1..Len(lst)}

\* np.delete(ground_set, S) with ground_set = np.arange(N)
Complement(N, S) == SortedSeq((0..(N - 1)) \ Elems(S))

\* np.intersect1d(a, ground_set): the sorted unique common elements
Intersect1d(a, N) == SortedSeq(Elems(a) \cap (0..(N - 1)))

-----------------------------------------------------------------------------
\* Determinants

RECURSIVE Det(_, _, _)
RECURSIVE DetSum(_, _, _, _)
\* Laplace expansion along the first row of M[rows, cols] (0-based indices
\* into the tuple-of-rows M); the determinant of the 0x0 matrix is 1
Det(M, rows, cols) ==
  IF Len(rows) = 0 THEN 1 ELSE DetSum(M, rows, cols, Len(cols))

DetSum(M, rows, cols, j) ==
  IF j = 0 THEN 0
  ELSE DetSum(M, rows, cols, j - 1)
       + (IF j % 2 = 1 THEN 1 ELSE -1)
         * M[rows[1] + 1][cols[j] + 1]
         * Det(M, Tail(rows), DelAt(cols, j - 1))

\* np.linalg.det(K[np.ix_(S, S)])
SubDet(K, S) == Det(K, S, S)

\* np.linalg.det(Vectors[:, B])
TileDet(V, B) == Det(V, [i \in 1..Len(V) |-> i - 1], B)

-----------------------------------------------------------------------------
\* Random draws and acceptance tests

Unif == 0..(Denom - 1)

\* np.random.rand() < 0.5
LessThanHalf(a) == 2 * a < Denom

\* the test written with <= instead of <
RatioLessOrEqual(a, num, den, fnum, fden) ==
  IF den = 0
    THEN num > 0 /\ fnum > 0
    ELSE IF den > 0
      THEN a * den * fden <= Denom * num * fnum
      ELSE a * den * fden >= Denom * num * fnum

\* the test written with the ratio det_S0/det_S1
InvertedRatioLess(a, num, den, fnum, fden) ==
  IF num = 0
    THEN den > 0 /\ fnum > 0
    ELSE IF num > 0
      THEN a * num * fden < Denom * den * fnum
      ELSE a * num * fden > Denom * den * fnum

\* a/Denom < (num/den) * fnum / fden, for fnum >= 0 and fden > 0, as floats
RatioLess(a, num, den, fnum, fden) ==
  IF den = 0
    THEN num > 0 /\ fnum > 0
    ELSE IF den > 0
      THEN a * den * fden < Denom * num * fnum
      ELSE a * den * fden > Denom * num * fnum

Abs(x) == IF x < 0 THEN -x ELSE x

\* a/Denom < abs(num/den), as floats
AbsRatioLess(a, num, den) ==
  IF den = 0 THEN num # 0 ELSE a * Abs(den) < Denom * Abs(num)

NoMove == [kind |-> "none", num |-> 0, den |-> 0, fnum |-> 1, fden |-> 1,
           u |-> 0, acc |-> FALSE]
Stay == [NoMove EXCEPT !.kind = "stay"]
Proposal(kind, num, den, fnum, fden, u, acc) ==
  [kind |-> kind, num |-> num, den |-> den, fnum |-> fnum, fden |-> fden,
   u |-> u, acc |-> acc]

-----------------------------------------------------------------------------
\* The stopping test at the end of an iteration of a discrete sampler:
\*   if nb_it_max: it += 1; flag = it < nb_it_max
\*   elif T_max:   flag = (time.time()-t_start) < T_max
\* now is what time.time()-t_start evaluates to at this point; the run keeps
\* in clock the last value it has read
ReadClock(r, now) == [r EXCEPT !.clock = now]

\* the two branches of the test in the other order
StopTestTimeFirst(r, now) ==
  IF T_max # 0
    THEN [ReadClock(r, now) EXCEPT !.flag = (now < T_max)]
    ELSE IF nb_it_max # 0
      THEN [r EXCEPT !.it = r.it + 1, !.flag = (r.it + 1 < nb_it_max)]
      ELSE r

StopTest(r, now) ==
  IF nb_it_max # 0
    THEN [r EXCEPT !.it = r.it + 1, !.flag = (r.it + 1 < nb_it_max)]
    ELSE IF T_max # 0
      THEN [ReadClock(r, now) EXCEPT !.flag = (now < T_max)]
      ELSE r

\* while flag: ... ; return samples
LoopOrReturn(r) == [r EXCEPT !.pc = IF r.flag THEN "loop" ELSE "done"]

\* an exception leaves the call: nothing is returned
Raise(r) == [r EXCEPT !.pc = "error"]

\* the end of an iteration whose body took the run to r: the stopping test
\* (not reached when the body raised) and the loop condition
EndOfIteration(r, now) ==
  IF r.pc = "error" THEN r ELSE LoopOrReturn(StopTest(r, now))

\* the runs in which an iteration can end, for the values time.time()-t_start
\* can have when the last value read is from
Ends(r, from) == {EndOfIteration(r, now) : now \in from..MaxT}

-----------------------------------------------------------------------------
\* add_delete_sampler: one iteration of the while loop

\* S1 = S0.copy(); if s in S0: S1.remove(s) else: S1.append(s)
Flip(lst, s) == IF Contains(lst, s) THEN ListRemove(lst, s) ELSE Append(lst, s)

AddDeleteBody(r, u1, s, u2) ==
  IF LessThanHalf(u1)
    THEN LET S1 == Flip(r.S0, s)
             det_S1 == SubDet(kernel, S1)
             acc == RatioLess(u2, det_S1, r.det_S0, 1, 1)
             mv == Proposal("flip", det_S1, r.det_S0, 1, 1, u2, acc)
         IN IF acc
              THEN [r EXCEPT !.S0 = S1, !.det_S0 = det_S1,
                             !.samples = Append(r.samples, S1), !.move = mv]
              ELSE [r EXCEPT !.samples = Append(r.samples, r.S0), !.move = mv]
    ELSE [r EXCEPT !.samples = Append(r.samples, r.S0), !.move = Stay]

-----------------------------------------------------------------------------
\* np.random.choice(arr, size=1) on a non-empty arr, from the raw draw w
Choice(arr, w) == arr[(w % Len(arr)) + 1]

\* np.random.choice(k, size=1) for k > 0, from the raw draw w
ChoiceBelow(k, w) == w % k

-----------------------------------------------------------------------------
\* basis_exchange_sampler: one iteration of the while loop

\* the exchange that forgets to drop the element at rnd_ind
SwapAppends(lst, i, t) == Append(lst, t)

\* S1 = S0.copy(); S1[rnd_ind] = t
Swap(lst, i, t) == SetAt(lst, i, t)

BasisExchangeBody(r, u1, w1, w2, u2) ==
  IF LessThanHalf(u1)
    THEN LET k == Len(s_init)
             rest == Complement(Len(kernel), r.S0)
         IN IF k = 0 \/ Len(rest) = 0
              THEN Raise(r)   \* np.random.choice raises ValueError
              ELSE LET S1 == Swap(r.S0, ChoiceBelow(k, w1), Choice(rest, w2))
                       det_S1 == SubDet(kernel, S1)
                       acc == RatioLess(u2, det_S1, r.det_S0, 1, 1)
                       mv == Proposal("swap", det_S1, r.det_S0, 1, 1, u2, acc)
                   IN IF acc
                        THEN [r EXCEPT !.S0 = S1, !.det_S0 = det_S1,
                                       !.samples = Append(r.samples, S1),
                                       !.move = mv]
                        ELSE [r EXCEPT !.samples = Append(r.samples, r.S0),
                                       !.move = mv]
    ELSE [r EXCEPT !.samples = Append(r.samples, r.S0), !.move = Stay]

-----------------------------------------------------------------------------
\* add_exchange_delete_sampler

nb_init_max == 100

\* det_S0 > 1e-8, for an integer determinant
AboveTol(d) == d >= 1

\* one pass of "for _ in range(nb_init_max)"; r0 is drawn and never read
AddExchangeDeleteAttempt(r, drawn) ==
  LET N == Len(kernel)
      S == Intersect1d(s_init, N)
      d == SubDet(kernel, S)
      tried == [r EXCEPT !.r0 = drawn, !.S0 = S, !.det_S0 = d]
  IN IF AboveTol(d)
       THEN [tried EXCEPT !.pc = "loop", !.sampl_size = Len(S),
                          !.samples = <<S>>, !.flag = TRUE, !.it = 1]
       ELSE IF r.attempt + 1 < nb_init_max
         THEN [tried EXCEPT !.attempt = r.attempt + 1]
         ELSE [tried EXCEPT !.attempt = r.attempt + 1,
                            !.pc = "error"]   \* raise ValueError

\* the test without the square: unif_01 < 0.5*(1-ratio)
IsAddLinear(a, m, N) == 2 * a * N < Denom * (N - m)

\* unif_01 < 0.5*(1-ratio)**2, with ratio = m/N
IsAdd(a, m, N) == 2 * a * N * N < Denom * (N - m) * (N - m)
\* (0.5*(1-ratio)**2 <= unif_01) & (unif_01 < 0.5*(1-ratio))
IsExchange(a, m, N) == ~IsAdd(a, m, N) /\ 2 * a * N < Denom * (N - m)
\* (0.5*(1-ratio) <= unif_01) & (unif_01 < 0.5*(ratio**2+(1-ratio)))
IsDelete(a, m, N) ==
  /\ 2 * a * N >= Denom * (N - m)
  /\ 2 * a * N * N < Denom * (m * m + N * N - m * N)

AddExchangeDeleteBody(r, w1, w2, unif_01, u2) ==
  LET N == Len(kernel)
      m == r.sampl_size
      rest == Complement(N, r.S0)
  IN IF m = 0 \/ Len(rest) = 0
       THEN Raise(r)   \* np.random.choice raises ValueError
       ELSE
         LET s == ChoiceBelow(m, w1)
             t == Choice(rest, w2)
         IN IF IsAdd(unif_01, m, N)
              THEN LET S1 == Append(r.S0, t)
                       det_S1 == SubDet(kernel, S1)
                       acc == RatioLess(u2, det_S1, r.det_S0, m + 1, N - m)
                       mv == Proposal("add", det_S1, r.det_S0, m + 1, N - m,
                                      u2, acc)
                   IN IF acc
                        THEN [r EXCEPT !.S0 = S1, !.det_S0 = det_S1,
                                       !.samples = Append(r.samples, S1),
                                       !.sampl_size = m + 1, !.move = mv]
                        ELSE [r EXCEPT !.move = mv]
            ELSE IF IsExchange(unif_01, m, N)
              THEN LET S1 == Append(DelAt(r.S0, s), t)
                       det_S1 == SubDet(kernel, S1)
                       acc == RatioLess(u2, det_S1, r.det_S0, 1, 1)
                       mv == Proposal("exchange", det_S1, r.det_S0, 1, 1,
                                      u2, acc)
                   IN IF acc
                        THEN [r EXCEPT !.S0 = S1, !.det_S0 = det_S1,
                                       !.samples = Append(r.samples, S1),
                                       !.move = mv]
                        ELSE [r EXCEPT !.move = mv]
            ELSE IF IsDelete(unif_01, m, N)
              THEN LET S1 == DelAt(r.S0, s)
                       det_S1 == SubDet(kernel, S1)
                       acc == RatioLess(u2, det_S1, r.det_S0, m, N - (m - 1))
                       mv == Proposal("delete", det_S1, r.det_S0, m,
                                      N - (m - 1), u2, acc)
                   IN IF acc
                        THEN [r EXCEPT !.S0 = S1, !.det_S0 = det_S1,
                                       !.samples = Append(r.samples, S1),
                                       !.sampl_size = m - 1, !.move = mv]
                        ELSE [r EXCEPT !.move = mv]
            ELSE [r EXCEPT !.samples = Append(r.samples, r.S0), !.move = Stay]

-----------------------------------------------------------------------------
\* zono_sampling.  Points of the zonotope, LP solutions and step lengths live
\* on a grid: a coordinate of y, u or lambda is a multiple of 1/Q, and is
\* held as its numerator in 0 .. Q; x = Vectors.y is held in the same unit.

RECURSIVE DotUpTo(_, _, _)
DotUpTo(a, b, j) == IF j = 0 THEN 0 ELSE DotUpTo(a, b, j - 1) + a[j] * b[j]
Dot(a, b) == DotUpTo(a, b, Len(a))

\* Vectors.dot(y)
MatVec(V, y) == [i \in 1..Len(V) |-> Dot(V[i], y)]

\* { y : 0 <= y <= 1 }, the constraint G*y <= h
Box(n) == [1..n -> 0..Q]

\* the indices taken along the other axis of the column y_sol: np.where(...)[1]
ExtractColumnIndices(y_sol) ==
  [i \in 1..Cardinality({j \in 1..Len(y_sol) : 0 < y_sol[j] /\ y_sol[j] < Q})
     |-> 0]

\* extract_basis: np.where((eps<y_sol)&(y_sol<1-eps))[0].tolist(); on the grid
\* eps < y < 1 - eps is 0 < y < Q
extract_basis(y_sol) ==
  SortedSeq({i - 1 : i \in {j \in 1..Len(y_sol) : 0 < y_sol[j] /\ y_sol[j] < Q}})

\* the feasible set of P_x(A,c): A*y = x, 0 <= y <= 1
FeasibleSet(V, x) == {y \in Box(Len(V[1])) : MatVec(V, y) = x}

\* the columns cols of V are linearly independent: some square submatrix of
\* V[:, cols] on Len(cols) rows has a non-zero determinant
Independent(V, cols) ==
  /\ Len(cols) <= Len(V)
  /\ \E R \in SUBSET (0..(Len(V) - 1)) :
       Cardinality(R) = Len(cols) /\ Det(V, SortedSeq(R), cols) # 0

\* a basic solution (a vertex of the feasible set): the columns of the entries
\* strictly between their bounds are linearly independent
IsBasic(V, y) ==
  Independent(V, SortedSeq({j - 1 : j \in {i \in 1..Len(y) : 0 < y[i] /\ y[i] < Q}}))

\* the optimal solutions of P_x(A,c) that the simplex method of glpk can
\* return: the optimal basic solutions (where no vertex of the feasible set is
\* on the grid, the feasible grid points stand for the vertices)
Optimal(cost, V, x) ==
  LET F == FeasibleSet(V, x)
      basic == {y \in F : IsBasic(V, y)}
      S == IF basic # {} THEN basic ELSE F
  IN {y \in S : \A z \in S : Dot(cost, y) <= Dot(cost, z)}

\* feature matrices (r x n, full row rank) and linear objectives c
Line11 == <<<<1, 1>>>>
Line12 == <<<<1, 2>>>>
Line10 == <<<<1, 0>>>>
Plane == <<<<1, 0, 1>>, <<0, 1, 1>>>>

\* a feature matrix of rank 0 < r
Zero1 == <<<<0>>>>
Features == {Line11, Line12, Line10, Plane, Zero1}
Objectives(n) ==
  {[j \in 1..n |-> 0], [j \in 1..n |-> j * j], [j \in 1..n |-> n - j]}

\* the grid points of the zonotope Z(V), and the optimal solutions of every
\* P_x(A,c), tabulated once
ZonotopeTable == [V \in Features |-> {MatVec(V, y) : y \in Box(Len(V[1]))}]
Zonotope(V) == ZonotopeTable[V]
OptimalTable ==
  [V \in Features |->
     [cost \in Objectives(Len(V[1])) |->
        [x \in Zonotope(V) |-> Optimal(cost, V, x)]]]

\* solvers.lp(c, G, h, A, x, solver='glpk')['x']: the solver returns one of
\* the optimal solutions (none when x is outside the zonotope)
LPSolutions(cost, V, x) ==
  IF x \in Zonotope(V) THEN OptimalTable[V][cost][x] ELSE {}

\* one solution for each basis that extract_basis can find at x
RECURSIVE OnePerBasis(_)
OnePerBasis(sols) ==
  IF sols = {} THEN {}
  ELSE LET y == CHOOSE z \in sols : TRUE
       IN {y} \cup OnePerBasis({z \in sols : extract_basis(z) # extract_basis(y)})
SolverPicksTable ==
  [V \in Features |->
     [cost \in Objectives(Len(V[1])) |->
        [x \in Zonotope(V) |-> OnePerBasis(OptimalTable[V][cost][x])]]]
SolverPicks(cost, V, x) ==
  IF x \in Zonotope(V) THEN SolverPicksTable[V][cost][x] ELSE {}

\* a bound on the step lengths: the sum of the |entries| of V, in grid steps
RECURSIVE AbsSum(_, _)
AbsSum(row, j) == IF j = 0 THEN 0 ELSE AbsSum(row, j - 1) + Abs(row[j])
RECURSIVE ReachUpTo(_, _)
ReachUpTo(V, i) ==
  IF i = 0 THEN 0 ELSE ReachUpTo(V, i - 1) + Q * AbsSum(V[i], Len(V[i]))
ReachTable == [V \in Features |-> ReachUpTo(V, Len(V))]

\* the step lengths alpha for which x + alpha*d stays in the zonotope: the
\* feasible set of the two LPs with objective +/- c_mM
Shift(x, alpha, d) == [i \in 1..Len(x) |-> x[i] + alpha * d[i]]
Alphas(V, x, d) ==
  {a \in (-ReachTable[V])..ReachTable[V] : Shift(x, a, d) \in Zonotope(V)}
SetMin(set) == CHOOSE a \in set : \A b \in set : a <= b
SetMax(set) == CHOOSE a \in set : \A b \in set : a >= b

\* one pass of "while len(B_x0) != r": u is np.random.rand(n), y the solution
\* returned by the solver
ZonoStart(r) ==
  LET first == [r EXCEPT !.pc = "loop", !.Bases = <<r.B_x0>>,
                         !.det_B_x0 = TileDet(Vectors, r.B_x0), !.it = 1,
                         !.flag = (1 < nb_it_max)]
  IN LoopOrReturn(first)

ZonoInitAttempt(r, u, y) ==
  LET B == extract_basis(y)
      drawn == [r EXCEPT !.x0 = MatVec(Vectors, u), !.B_x0 = B]
  IN IF Len(B) # Len(Vectors) THEN drawn ELSE ZonoStart(drawn)

\* the stopping test of zono_sampling:
\*   if nb_it_max is not None: it += 1; flag = it < nb_it_max
\*   elif T_max:               flag = (time.time() - t_start) < T_max
\* an integer budget is never None
IsNone(budget) == budget \notin Int

ZonoStopTest(r, now) ==
  IF ~IsNone(nb_it_max)
    THEN [r EXCEPT !.it = r.it + 1, !.flag = (r.it + 1 < nb_it_max)]
    ELSE IF T_max # 0
      THEN [ReadClock(r, now) EXCEPT !.flag = (now < T_max)]
      ELSE r

\* x1 = x0 + (alpha_m + (alpha_M-alpha_m)*np.random.rand())*d, where the draw
\* w stands for the uniform number w/(alpha_M - alpha_m) in [0, 1)
Propose(x, alpha_m, alpha_M, w, d) ==
  Shift(x, alpha_m + (IF alpha_M > alpha_m THEN w % (alpha_M - alpha_m) ELSE 0), d)

\* the iteration with x0 = x1 assigned before the size of B_x1 is tested
ZonoBodyMovesFirst(r, x1, y, u2) ==
  LET B_x1 == extract_basis(y)
  IN IF Len(B_x1) # Len(Vectors)
       THEN [r EXCEPT !.x0 = x1, !.Bases = Append(r.Bases, r.B_x0),
                      !.move = Proposal("degenerate", 0, r.det_B_x0, 1, 1,
                                        0, FALSE)]
       ELSE LET det_B_x1 == TileDet(Vectors, B_x1)
                acc == AbsRatioLess(u2, det_B_x1, r.det_B_x0)
                mv == Proposal("tile", det_B_x1, r.det_B_x0, 1, 1, u2, acc)
            IN IF acc
                 THEN [r EXCEPT !.x0 = x1, !.B_x0 = B_x1,
                                !.det_B_x0 = det_B_x1,
                                !.Bases = Append(r.Bases, B_x1), !.move = mv]
                 ELSE [r EXCEPT !.x0 = x1, !.Bases = Append(r.Bases, r.B_x0),
                                !.move = mv]

\* one iteration of the while loop, up to the stopping test: x1 is the
\* proposed point, y the solution returned for P_x1
ZonoBody(r, x1, y, u2) ==
  LET B_x1 == extract_basis(y)
  IN IF Len(B_x1) # Len(Vectors)
       THEN [r EXCEPT !.Bases = Append(r.Bases, r.B_x0),
                      !.move = Proposal("degenerate", 0, r.det_B_x0, 1, 1,
                                        0, FALSE)]
       ELSE LET det_B_x1 == TileDet(Vectors, B_x1)
                acc == AbsRatioLess(u2, det_B_x1, r.det_B_x0)
                mv == Proposal("tile", det_B_x1, r.det_B_x0, 1, 1, u2, acc)
            IN IF acc
                 THEN [r EXCEPT !.x0 = x1, !.B_x0 = B_x1,
                                !.det_B_x0 = det_B_x1,
                                !.Bases = Append(r.Bases, B_x1), !.move = mv]
                 ELSE [r EXCEPT !.Bases = Append(r.Bases, r.B_x0),
                                !.move = mv]

ZonoEndOfIteration(r, now) == LoopOrReturn(ZonoStopTest(r, now))

ZonoEnds(r, from) == {ZonoEndOfIteration(r, now) : now \in from..MaxT}

-----------------------------------------------------------------------------
\* The run as a record, and its assignment to the variables

Cur == [pc |-> pc, attempt |-> attempt, r0 |-> r0, S0 |-> S0, det_S0 |-> det_S0,
        sampl_size |-> sampl_size, samples |-> samples, x0 |-> x0,
        B_x0 |-> B_x0, det_B_x0 |-> det_B_x0, Bases |-> Bases, it |-> it,
        flag |-> flag, clock |-> clock, move |-> move]

Assign(r) ==
  /\ pc' = r.pc /\ attempt' = r.attempt /\ r0' = r.r0 /\ S0' = r.S0 /\ det_S0' = r.det_S0
  /\ sampl_size' = r.sampl_size /\ samples' = r.samples /\ x0' = r.x0
  /\ B_x0' = r.B_x0 /\ det_B_x0' = r.det_B_x0 /\ Bases' = r.Bases
  /\ it' = r.it /\ flag' = r.flag /\ clock' = r.clock /\ move' = r.move

\* the variables hold the run r (used by Init)
Holds(r) ==
  /\ pc = r.pc /\ attempt = r.attempt /\ r0 = r.r0 /\ S0 = r.S0 /\ det_S0 = r.det_S0
  /\ sampl_size = r.sampl_size /\ samples = r.samples /\ x0 = r.x0
  /\ B_x0 = r.B_x0 /\ det_B_x0 = r.det_B_x0 /\ Bases = r.Bases
  /\ it = r.it /\ flag = r.flag /\ clock = r.clock /\ move = r.move

\* the run before the first statement of a sampler
Blank == [pc |-> "entry", attempt |-> 0, r0 |-> {}, S0 |-> <<>>, det_S0 |-> 0,
          sampl_size |-> 0, samples |-> <<>>, x0 |-> <<>>, B_x0 |-> <<>>,
          det_B_x0 |-> 0, Bases |-> <<>>, it |-> 0, flag |-> FALSE,
          clock |-> 0, move |-> NoMove]

\* add_delete_sampler and basis_exchange_sampler up to the while loop
EnterWithSample ==
  [Blank EXCEPT !.pc = "loop", !.S0 = s_init, !.det_S0 = SubDet(kernel, s_init),
                !.samples = <<s_init>>, !.flag = TRUE, !.it = 1]

\* add_exchange_delete_sampler before its initialization loop
EnterInitLoop == [Blank EXCEPT !.pc = "init"]

Enter ==
  IF fn \in {"add_exchange_delete", "zono_sampling"}
    THEN EnterInitLoop ELSE EnterWithSample

-----------------------------------------------------------------------------
\* The list objects behind the names of a discrete sampler.  objs[i] is the
\* content of object i; s_init, S0 and S1 name objects, and samples is the
\* list of the objects appended so far.  Object 1 is the caller's s_init.

HeapBlank == [objs |-> <<>>, S0 |-> 0, S1 |-> 0, samples |-> <<>>]

\* S0 = s_init; samples = [S0]
HeapEnterWithSample ==
  [objs |-> <<s_init>>, S0 |-> 1, S1 |-> 0, samples |-> <<1>>]

\* add_exchange_delete_sampler before its initialization loop
HeapEnterInitLoop == [objs |-> <<s_init>>, S0 |-> 0, S1 |-> 0, samples |-> <<>>]

HeapEnter ==
  IF fn = "add_exchange_delete" THEN HeapEnterInitLoop ELSE HeapEnterWithSample

\* S0 = np.intersect1d(s_init, ground_set) makes a new object (the one of the
\* previous attempt is unreachable); after the loop, samples = [S0]
HeapAttempt(h, b) ==
  [h EXCEPT !.objs = <<h.objs[1], Intersect1d(h.objs[1], Len(kernel))>>,
            !.S0 = 2,
            !.samples = IF b.pc = "loop" THEN <<2>> ELSE <<>>]

\* S1 = S0 without the copy
NoCopy(h) == [h EXCEPT !.S1 = h.S0]

\* S1 = S0.copy()
Copy(h) ==
  [h EXCEPT !.objs = Append(h.objs, h.objs[h.S0]), !.S1 = Len(h.objs) + 1]

\* a method of the list S1 (append, remove, del, item assignment) leaves the
\* object S1 with the content lst
InPlace(h, lst) == [h EXCEPT !.objs[h.S1] = lst]

\* S0, det_S0 = S1, det_S1; samples.append(S1)
HeapAccept(h) == [h EXCEPT !.S0 = h.S1, !.samples = Append(h.samples, h.S1)]

\* at the end of an iteration that did not accept S1, its copy is unreachable
Unreachable(h) ==
  IF h.S1 # h.S0 /\ h.S1 = Len(h.objs)
    THEN [h EXCEPT !.objs = SubSeq(h.objs, 1, h.S1 - 1), !.S1 = 0]
    ELSE h

\* samples.append(S0)
HeapStay(h) == [h EXCEPT !.samples = Append(h.samples, h.S0)]

\* the objects of one iteration of add_delete_sampler that draws s and takes
\* the run to b
HeapAddDelete(h, b, s) ==
  IF b.move.kind = "flip"
    THEN LET h1 == Copy(h)
             h2 == InPlace(h1, Flip(h1.objs[h1.S1], s))
         IN IF b.move.acc THEN HeapAccept(h2) ELSE HeapStay(Unreachable(h2))
    ELSE HeapStay(h)

\* the objects of one iteration of basis_exchange_sampler
HeapBasisExchange(h, b, w1, w2) ==
  IF b.pc = "error"
    THEN h
    ELSE IF b.move.kind = "swap"
      THEN LET h1 == Copy(h)
               rest == Complement(Len(kernel), h1.objs[h1.S0])
               h2 == InPlace(h1, Swap(h1.objs[h1.S1],
                                      ChoiceBelow(Len(s_init), w1),
                                      Choice(rest, w2)))
           IN IF b.move.acc THEN HeapAccept(h2) ELSE HeapStay(Unreachable(h2))
      ELSE HeapStay(h)

\* the objects of one iteration of add_exchange_delete_sampler
HeapAddExchangeDelete(h, b, w1, w2) ==
  IF b.pc = "error"
    THEN h
    ELSE IF b.move.kind = "stay"
      THEN HeapStay(h)
      ELSE LET h1 == Copy(h)
               cur == h1.objs[h1.S1]
               s == ChoiceBelow(Len(h.objs[h.S0]), w1)
               t == Choice(Complement(Len(kernel), h.objs[h.S0]), w2)
               h2 == IF b.move.kind = "add"
                       THEN InPlace(h1, Append(cur, t))
                       ELSE IF b.move.kind = "exchange"
                         THEN InPlace(h1, Append(DelAt(cur, s), t))
                         ELSE InPlace(h1, DelAt(cur, s))
           IN IF b.move.acc THEN HeapAccept(h2) ELSE Unreachable(h2)

\* the content of the returned list
Deref(h) == [i \in 1..Len(h.samples) |-> h.objs[h.samples[i]]]

-----------------------------------------------------------------------------
\* Inputs

I2 == <<<<1, 0>>, <<0, 1>>>>
Ones2 == <<<<1, 1>>, <<1, 1>>>>
Swap2 == <<<<0, 1>>, <<1, 0>>>>
I3 == <<<<1, 0, 0>>, <<0, 1, 0>>, <<0, 0, 1>>>>

Kernels == {I2, Ones2, Swap2, I3}

\* the lists of distinct ground-set indices, in ascending order
Samples(N) == {SortedSeq(s) : s \in SUBSET (0..(N - 1))}

\* <<nb_it_max, T_max>>: every iteration budget with a time budget, and the
\* calls without a time budget
Budgets == ((0..MaxIt) \X {MaxT}) \cup {<<0, 0>>, <<MaxIt, 0>>}

\* <<kernel, s_init>>
DiscreteCalls ==
  {<<I2, s>> : s \in Samples(2)}
    \cup {<<Ones2, <<>>>>, <<Ones2, <<0>>>>, <<Ones2, <<0, 1>>>>}
    \cup {<<Swap2, <<0>>>>, <<Swap2, <<0, 1>>>>}
    \cup {<<I3, <<>>>>, <<I3, <<0, 1>>>>, <<I3, <<0, 1, 2>>>>}

InitDiscrete ==
  /\ fn \in {"add_delete", "basis_exchange", "add_exchange_delete"}
  /\ \E call \in DiscreteCalls : kernel = call[1] /\ s_init = call[2]
  /\ Vectors = <<>> /\ c = <<>>

InitZono ==
  /\ fn = "zono_sampling"
  /\ Vectors \in Features
  /\ c \in Objectives(Len(Vectors[1]))
  /\ kernel = <<>> /\ s_init = <<>>

Init ==
  /\ InitDiscrete \/ InitZono
  /\ \E b \in Budgets : nb_it_max = b[1] /\ T_max = b[2]
  /\ Holds(Enter)
  /\ other = Blank
  /\ heap = HeapBlank

\* the raw draws that np.random.choice tells apart on an array of n elements
RawFor(n) == 0..(IF n > 0 THEN n - 1 ELSE 0)

\* Each step below takes the run to one of the runs that the draws of one
\* iteration (and the clock reading at its end) can produce.  A chain is
\* followed until it holds more than MaxLen entries.
MaxLen == IF nb_it_max > MaxIt THEN nb_it_max ELSE MaxIt

AddDeleteStep ==
  /\ fn = "add_delete" /\ pc = "loop"
  /\ Len(samples) <= MaxLen
  /\ \E nxt \in UNION {Ends(AddDeleteBody(Cur, u1, s, u2), clock) :
                         u1 \in Unif, s \in 0..(Len(kernel) - 1), u2 \in Unif} :
       Assign(nxt)
  /\ UNCHANGED <<inputs, other, heap>>

BasisExchangeStep ==
  /\ fn = "basis_exchange" /\ pc = "loop"
  /\ Len(samples) <= MaxLen
  /\ \E nxt \in UNION {Ends(BasisExchangeBody(Cur, u1, w1, w2, u2), clock) :
                         u1 \in Unif, w1 \in RawFor(Len(kernel)),
                         w2 \in RawFor(Len(kernel)), u2 \in Unif} :
       Assign(nxt)
  /\ UNCHANGED <<inputs, other, heap>>

\* r0 = np.random.choice(2*N, size=N, replace=False): the draws that fall
\* inside the ground set, outside it, and across its end
DrawsWithoutReplacement(N) == {0..(N - 1), N..(2 * N - 1), 1..N}

AddExchangeDeleteInit ==
  /\ fn = "add_exchange_delete" /\ pc = "init"
  /\ \E nxt \in {AddExchangeDeleteAttempt(Cur, drawn) :
                   drawn \in DrawsWithoutReplacement(Len(kernel))} :
       Assign(nxt)
  /\ UNCHANGED <<inputs, other, heap>>

AddExchangeDeleteStep ==
  /\ fn = "add_exchange_delete" /\ pc = "loop"
  /\ Len(samples) <= MaxLen
  /\ \E nxt \in UNION {Ends(AddExchangeDeleteBody(Cur, w1, w2, unif_01, u2),
                            clock) :
                         w1 \in RawFor(Len(kernel)), w2 \in RawFor(Len(kernel)),
                         unif_01 \in Unif, u2 \in Unif} :
       Assign(nxt)
  /\ UNCHANGED <<inputs, other, heap>>

\* the directions d told apart on the grid (d = 0 has probability 0)
Directions(r) ==
  {d \in [1..r -> {-1, 0, 1}] : \E i \in 1..r : d[i] # 0}

\* the solver is a function of its input: of the solutions it may return for
\* x, the choice k selects one
RECURSIVE Nth(_, _)
Nth(set, k) ==
  LET y == CHOOSE z \in set : TRUE
  IN IF k = 0 \/ set = {y} THEN y ELSE Nth(set \ {y}, k - 1)
SolverPick(x, k) ==
  LET picks == SolverPicks(c, Vectors, x)
  IN Nth(picks, k % Cardinality(picks))
SolverChoices == 0..2

\* the first statements of an iteration: the direction d, the two LPs for
\* alpha_m and alpha_M, and the proposal x1 (w is the draw of the step length)
ZonoProposal(r, d, w) ==
  LET A == Alphas(Vectors, r.x0, d)
  IN Propose(r.x0, SetMin(A), SetMax(A), w, d)

ZonoInitFrom(r, u, k) == ZonoInitAttempt(r, u, SolverPick(MatVec(Vectors, u), k))

\* the rest of the iteration, from the proposal x1
ZonoBodyFrom(r, x1, k, u2) == ZonoBody(r, x1, SolverPick(x1, k), u2)

\* the draws of d and of the step length
ZonoDraws ==
  Directions(Len(Vectors)) \X RawFor(2 * ReachTable[Vectors])

ZonoInit ==
  /\ fn = "zono_sampling" /\ pc = "init"
  /\ \E nxt \in {ZonoInitFrom(Cur, u, k) :
                   u \in [1..Len(Vectors[1]) -> 0..(Q - 1)],
                   k \in SolverChoices} :
       Assign(nxt)
  /\ UNCHANGED <<inputs, other, heap>>

ZonoStep ==
  /\ fn = "zono_sampling" /\ pc = "loop"
  /\ Len(Bases) <= MaxLen
  /\ \E nxt \in UNION {ZonoEnds(ZonoBodyFrom(Cur, x1, k, u2), clock) :
                         x1 \in {ZonoProposal(Cur, dw[1], dw[2]) : dw \in ZonoDraws},
                         k \in SolverChoices, u2 \in Unif} :
       Assign(nxt)
  /\ UNCHANGED <<inputs, other, heap>>

Next ==
  \/ ZonoInit
  \/ ZonoStep
  \/ AddDeleteStep
  \/ BasisExchangeStep
  \/ AddExchangeDeleteInit
  \/ AddExchangeDeleteStep

Spec == Init /\ [][Next]_vars

-----------------------------------------------------------------------------
\* Scenario A: add_delete_sampler on the 2x2 identity from the sample {0},
\* with nb_it_max = 5

InitScenarioA ==
  /\ fn = "add_delete" /\ kernel = I2 /\ s_init = <<0>>
  /\ nb_it_max = 5 /\ T_max \in {0, MaxT}
  /\ Vectors = <<>> /\ c = <<>>
  /\ Holds(Enter)
  /\ other = Blank
  /\ heap = HeapBlank

SpecScenarioA == InitScenarioA /\ [][AddDeleteStep]_vars

-----------------------------------------------------------------------------
\* Two runs of the same call: the same inputs and the same draws in the i-th
\* iteration of both, each run with its own clock readings.  A run that has
\* left its loop stays as it is while the other goes on.

PairCalls == {<<I2, <<0>>>>, <<Ones2, <<0>>>>}

InitPairDiscrete ==
  /\ fn \in {"add_delete", "basis_exchange", "add_exchange_delete"}
  /\ \E call \in PairCalls : kernel = call[1] /\ s_init = call[2]
  /\ fn = "add_exchange_delete" => kernel = I2
  /\ Vectors = <<>> /\ c = <<>>

InitPairZono ==
  /\ fn = "zono_sampling"
  /\ Vectors \in {Line11, Line12}
  /\ c \in Objectives(Len(Vectors[1]))
  /\ kernel = <<>> /\ s_init = <<>>

\* the time budget alone, the iteration budget alone, and both
PairBudgets == {<<0, MaxT>>, <<MaxIt, 0>>, <<MaxIt, MaxT>>}

InitPair ==
  /\ InitPairDiscrete \/ InitPairZono
  /\ \E b \in PairBudgets : nb_it_max = b[1] /\ T_max = b[2]
  /\ Holds(Enter)
  /\ other = Enter
  /\ heap = HeapBlank

Both(pair) == Assign(pair[1]) /\ other' = pair[2]

Running(r) == r.pc = "loop" /\ Len(r.samples) <= MaxLen /\ Len(r.Bases) <= MaxLen

\* the ends of an iteration of both runs, or of the one that is still running
PairEnds(b1, b2) ==
  (IF Running(Cur) THEN Ends(b1, clock) ELSE {Cur})
    \X (IF Running(other) THEN Ends(b2, other.clock) ELSE {other})

PairAddDeleteStep ==
  /\ fn = "add_delete" /\ (Running(Cur) \/ Running(other))
  /\ \E pair \in UNION {PairEnds(AddDeleteBody(Cur, u1, s, u2),
                                 AddDeleteBody(other, u1, s, u2)) :
                          u1 \in Unif, s \in 0..(Len(kernel) - 1), u2 \in Unif} :
       Both(pair)
  /\ UNCHANGED <<inputs, heap>>

PairBasisExchangeStep ==
  /\ fn = "basis_exchange" /\ (Running(Cur) \/ Running(other))
  /\ \E pair \in UNION {PairEnds(BasisExchangeBody(Cur, u1, w1, w2, u2),
                                 BasisExchangeBody(other, u1, w1, w2, u2)) :
                          u1 \in Unif, w1 \in RawFor(Len(kernel)),
                          w2 \in RawFor(Len(kernel)), u2 \in Unif} :
       Both(pair)
  /\ UNCHANGED <<inputs, heap>>

PairAddExchangeDeleteInit ==
  /\ fn = "add_exchange_delete" /\ pc = "init" /\ other.pc = "init"
  /\ \E pair \in {<<AddExchangeDeleteAttempt(Cur, drawn),
                    AddExchangeDeleteAttempt(other, drawn)>> :
                    drawn \in DrawsWithoutReplacement(Len(kernel))} :
       Both(pair)
  /\ UNCHANGED <<inputs, heap>>

PairAddExchangeDeleteStep ==
  /\ fn = "add_exchange_delete" /\ (Running(Cur) \/ Running(other))
  /\ \E pair \in UNION {PairEnds(AddExchangeDeleteBody(Cur, w1, w2, unif_01, u2),
                                 AddExchangeDeleteBody(other, w1, w2, unif_01, u2)) :
                          w1 \in RawFor(Len(kernel)), w2 \in RawFor(Len(kernel)),
                          unif_01 \in Unif, u2 \in Unif} :
       Both(pair)
  /\ UNCHANGED <<inputs, heap>>

PairZonoEnds(b1, b2) ==
  (IF Running(Cur) THEN ZonoEnds(b1, clock) ELSE {Cur})
    \X (IF Running(other) THEN ZonoEnds(b2, other.clock) ELSE {other})

PairZonoInit ==
  /\ fn = "zono_sampling" /\ pc = "init" /\ other.pc = "init"
  /\ \E pair \in {<<ZonoInitFrom(Cur, u, k), ZonoInitFrom(other, u, k)>> :
                    u \in [1..Len(Vectors[1]) -> 0..(Q - 1)],
                    k \in SolverChoices} :
       Both(pair)
  /\ UNCHANGED <<inputs, heap>>

PairZonoStep ==
  /\ fn = "zono_sampling" /\ (Running(Cur) \/ Running(other))
  /\ \E pair \in UNION {PairZonoEnds(ZonoBodyFrom(Cur, x[1], k, u2),
                                     ZonoBodyFrom(other, x[2], k, u2)) :
                          x \in {<<ZonoProposal(Cur, dw[1], dw[2]),
                                   ZonoProposal(other, dw[1], dw[2])>> :
                                   dw \in ZonoDraws},
                          k \in SolverChoices, u2 \in Unif} :
       Both(pair)
  /\ UNCHANGED <<inputs, heap>>

NextPair ==
  \/ PairZonoInit
  \/ PairZonoStep
  \/ PairAddDeleteStep
  \/ PairBasisExchangeStep
  \/ PairAddExchangeDeleteInit
  \/ PairAddExchangeDeleteStep

SpecPair == InitPair /\ [][NextPair]_vars

-----------------------------------------------------------------------------
\* The discrete samplers with their list objects

InitHeap ==
  /\ InitDiscrete
  /\ \E b \in Budgets : nb_it_max = b[1] /\ T_max = b[2]
  /\ Holds(Enter)
  /\ other = Blank
  /\ heap = HeapEnter

HeapAddDeleteStep ==
  /\ fn = "add_delete" /\ pc = "loop"
  /\ Len(samples) <= MaxLen
  /\ \E u1 \in Unif, s \in 0..(Len(kernel) - 1), u2 \in Unif :
       LET b == AddDeleteBody(Cur, u1, s, u2)
       IN /\ \E nxt \in Ends(b, clock) : Assign(nxt)
          /\ heap' = HeapAddDelete(heap, b, s)
  /\ UNCHANGED <<inputs, other>>

HeapBasisExchangeStep ==
  /\ fn = "basis_exchange" /\ pc = "loop"
  /\ Len(samples) <= MaxLen
  /\ \E u1 \in Unif, w1 \in RawFor(Len(kernel)),
        w2 \in RawFor(Len(kernel)), u2 \in Unif :
       LET b == BasisExchangeBody(Cur, u1, w1, w2, u2)
       IN /\ \E nxt \in Ends(b, clock) : Assign(nxt)
          /\ heap' = HeapBasisExchange(heap, b, w1, w2)
  /\ UNCHANGED <<inputs, other>>

HeapAddExchangeDeleteInit ==
  /\ fn = "add_exchange_delete" /\ pc = "init"
  /\ \E drawn \in DrawsWithoutReplacement(Len(kernel)) :
       LET b == AddExchangeDeleteAttempt(Cur, drawn)
       IN Assign(b) /\ heap' = HeapAttempt(heap, b)
  /\ UNCHANGED <<inputs, other>>

HeapAddExchangeDeleteStep ==
  /\ fn = "add_exchange_delete" /\ pc = "loop"
  /\ Len(samples) <= MaxLen
  /\ \E w1 \in RawFor(Len(kernel)), w2 \in RawFor(Len(kernel)),
        unif_01 \in Unif, u2 \in Unif :
       LET b == AddExchangeDeleteBody(Cur, w1, w2, unif_01, u2)
       IN /\ \E nxt \in Ends(b, clock) : Assign(nxt)
          /\ heap' = HeapAddExchangeDelete(heap, b, w1, w2)
  /\ UNCHANGED <<inputs, other>>

NextHeap ==
  \/ HeapAddDeleteStep
  \/ HeapBasisExchangeStep
  \/ HeapAddExchangeDeleteInit
  \/ HeapAddExchangeDeleteStep

SpecHeap == InitHeap /\ [][NextHeap]_vars

-----------------------------------------------------------------------------
\* Properties

Discrete == {"add_delete", "add_exchange_delete", "basis_exchange"}

\* the sequence a call returns (samples, or np.array(Bases))
Returned == IF fn = "zono_sampling" THEN Bases ELSE samples

\* the ground set of the call
GroundSet ==
  IF fn = "zono_sampling" THEN 0..(Len(Vectors[1]) - 1) ELSE 0..(Len(kernel) - 1)

Distinct(lst) == \A i, j \in 1..Len(lst) : i # j => lst[i] # lst[j]

\* the moves that compute a candidate determinant
Candidates == {"flip", "swap", "add", "exchange", "delete", "tile"}

\* C1: for every iteration budget nb_it_max >= 1, each sampler returns a
\* sequence with exactly nb_it_max entries.
ChainLengthLaw ==
  (pc = "done" /\ nb_it_max >= 1) => Len(Returned) = nb_it_max

CardinalityInvariant ==
  /\ fn = "basis_exchange" =>
       \A i \in 1..Len(samples) :
         Len(samples[i]) = Len(s_init) /\ Cardinality(Elems(samples[i])) = Len(s_init)
  /\ fn = "zono_sampling" =>
       \A i \in 1..Len(Bases) :
         Len(Bases[i]) = Len(Vectors) /\ Cardinality(Elems(Bases[i])) = Len(Vectors)

\* Scenario C with an accepted exchange: K = 3x3 identity, an initial sample of
\* size 2, and a recorded state other than the initial one
CardinalityWitness ==
  /\ fn = "basis_exchange" /\ kernel = I3 /\ Len(s_init) = 2
  /\ pc = "done" /\ move.kind = "swap" /\ move.acc
  /\ \E i \in 1..Len(samples) : samples[i] # s_init

\* C4: in all four samplers every recorded state consists of pairwise distinct
\* indices of the ground set (the initial samples of the model are distinct).
DistinctnessInvariant ==
  \A i \in 1..Len(Returned) :
    Distinct(Returned[i]) /\ Elems(Returned[i]) \subseteq GroundSet

\* add_delete_sampler has removed an index and appended another
DistinctnessWitness ==
  /\ fn = "add_delete" /\ Distinct(s_init) /\ Len(samples) >= 3
  /\ Len(samples[2]) < Len(samples[1]) /\ Len(samples[3]) > Len(samples[2])

\* C5: a candidate whose determinant is exactly 0 is not accepted, whatever
\* the uniform draw; the current state and its cached determinant stay.
ZeroDetNeverAccepted ==
  [][(pc = "loop" /\ move'.kind \in Candidates /\ move'.num = 0)
       => /\ ~move'.acc
          /\ S0' = S0 /\ det_S0' = det_S0
          /\ x0' = x0 /\ B_x0' = B_x0 /\ det_B_x0' = det_B_x0]_vars

\* a candidate of determinant 0 met the draw 0 and was rejected
ZeroDetWitness ==
  /\ move.kind \in Candidates /\ move.num = 0 /\ move.u = 0 /\ move.den # 0
  /\ ~move.acc

\* (num/den) * fnum / fden >= 1, as floats
RatioAtLeastOne(mv) ==
  IF mv.den = 0
    THEN mv.num > 0
    ELSE IF mv.den > 0
      THEN mv.num * mv.fnum >= mv.den * mv.fden
      ELSE mv.num * mv.fnum <= mv.den * mv.fden

\* C6: a candidate whose determinant ratio, times the reweighting factor of
\* the move, is >= 1 is accepted whatever the uniform draw: the candidate is
\* then the current state and the last recorded one.
RatioAtLeastOneAccepted ==
  (move.kind \in Candidates /\ RatioAtLeastOne(move))
    => /\ move.acc
       /\ (IF fn = "zono_sampling" THEN det_B_x0 ELSE det_S0) = move.num
       /\ Returned[Len(Returned)] = (IF fn = "zono_sampling" THEN B_x0 ELSE S0)

\* an add move of add_exchange_delete_sampler with ratio * factor > 1 met the
\* largest draw
RatioAtLeastOneWitness ==
  /\ move.kind = "add" /\ move.num * move.fnum > move.den * move.fden
  /\ move.den > 0 /\ move.u = Denom - 1 /\ move.acc

BothBudgets == nb_it_max # 0 /\ T_max # 0

\* C7: when nb_it_max and T_max are both non-zero, the loop stops by the
\* iteration counter alone: the elapsed time is never read, the call has
\* returned only if it >= nb_it_max, and the loop goes on only if
\* it < nb_it_max (or, in a discrete sampler, for its first iteration).
IterationCountDecides ==
  BothBudgets =>
    /\ clock = 0
    /\ pc = "done" => it >= nb_it_max
    /\ pc = "loop" => (it < nb_it_max \/ (fn \in Discrete /\ it = 1))

\* a call with both budgets has returned after more than one iteration
IterationCountWitness ==
  BothBudgets /\ fn = "add_exchange_delete" /\ pc = "done" /\ it = nb_it_max /\ it > 2

\* C8: with nb_it_max = 0 and T_max > 0 each of the four samplers returns
\* only at a check of the elapsed time that finds it not below T_max.
WallClockBudget ==
  (nb_it_max = 0 /\ T_max > 0 /\ pc = "done") => clock >= T_max

\* the sequence the second run returns
OtherReturned == IF fn = "zono_sampling" THEN other.Bases ELSE other.samples

IsPrefix(a, b) == Len(a) <= Len(b) /\ \A i \in 1..Len(a) : a[i] = b[i]

BothReturned == pc = "done" /\ other.pc = "done"

\* C9 as stated: two runs of the same sampler on the same inputs, budgets and
\* draws return identical sequences, whatever their clocks read.
Reproducible == BothReturned => Returned = OtherReturned

\* C9 as amended: the two returned sequences are identical when nb_it_max is
\* non-zero and in zono_sampling; when a discrete sampler runs on its time
\* budget (nb_it_max = 0), one returned sequence is a prefix of the other.
ReproducibleUpToLength ==
  BothReturned =>
    /\ IsPrefix(Returned, OtherReturned) \/ IsPrefix(OtherReturned, Returned)
    /\ (nb_it_max # 0 \/ fn = "zono_sampling") => Returned = OtherReturned

\* two runs with both budgets set have returned a chain that moved
ReproducibleWitness ==
  /\ BothReturned /\ BothBudgets /\ fn = "add_delete"
  /\ Len(Returned) = MaxIt /\ Returned[Len(Returned)] # Returned[1]

ScenarioA ==
  fn = "add_delete" /\ kernel = I2 /\ s_init = <<0>> /\ nb_it_max = 5

\* C10 as stated: Scenario A returns a 5-entry sequence of singleton or empty
\* sets; {0,1} is never recorded.
ScenarioASingletonsOnly ==
  (ScenarioA /\ pc = "done")
    => Len(samples) = 5 /\ \A i \in 1..Len(samples) : Len(samples[i]) <= 1

\* C10 as amended: Scenario A returns a 5-entry sequence that starts with {0}
\* and whose entries are sets of distinct indices among {0, 1}: empty,
\* singleton, or {0,1} itself.
ScenarioASubsets ==
  (ScenarioA /\ pc = "done")
    => /\ Len(samples) = 5 /\ samples[1] = <<0>>
       /\ \A i \in 1..Len(samples) :
            Distinct(samples[i]) /\ Elems(samples[i]) \subseteq {0, 1}

\* Scenario A has returned a chain that recorded {0,1}
ScenarioAWitness ==
  /\ ScenarioA /\ pc = "done"
  /\ \E i \in 1..Len(samples) : Elems(samples[i]) = {0, 1}

\* C11: a sampler never modifies the caller's s_init, and an entry once
\* appended to the returned list is never changed by a later iteration; the
\* returned list holds the recorded states.
NoSideEffects ==
  [][/\ heap'.objs[1] = s_init
     /\ IsPrefix(Deref(heap), Deref(heap'))
     /\ Deref(heap') = samples']_vars

\* add_delete_sampler has accepted a candidate built from the caller's s_init
\* and then another one
NoSideEffectsWitness ==
  /\ fn = "add_delete" /\ pc = "done" /\ heap.objs # <<>>
  /\ Len(heap.samples) >= 3
  /\ heap.samples[2] # 1 /\ heap.samples[3] # heap.samples[2]

\* C12: add_exchange_delete_sampler makes at most nb_init_max attempts; each
\* draws a fresh random subset of the ground set; the chain starts only from
\* the drawn subset and only if its determinant exceeds the tolerance; when
\* no attempt succeeds the call fails and returns no chain.
InitByRejectionSampling ==
  fn = "add_exchange_delete" =>
    /\ attempt <= nb_init_max
    /\ (pc = "error" /\ samples = <<>>) => attempt = nb_init_max
    /\ samples # <<>> =>
         /\ AboveTol(SubDet(kernel, samples[1]))
         /\ Elems(samples[1]) = r0 \cap GroundSet

\* C13: the initialization of zono_sampling has a bounded retry budget: every
\* failed attempt (a basis of a size other than r) uses up one of a bounded
\* number of attempts, after which the call fails instead of retrying.
ZonoInitBounded ==
  [][(fn = "zono_sampling" /\ pc = "init" /\ pc' = "init")
       => (attempt' = attempt + 1 /\ attempt' < nb_init_max)]_vars

TilesAt(x) == {extract_basis(y) : y \in SolverPicks(c, Vectors, x)}

\* C15: in zono_sampling a proposal whose basis has a size other than r is a
\* rejection, not an error: the current basis is recorded again and x0, B_x0
\* and det_B_x0 stay; they also stay after a rejection by the determinant
\* ratio; on acceptance the three are replaced together (the new point, its
\* tile and the determinant of that tile).
DegenerateProposalRejected ==
  [][(fn = "zono_sampling" /\ pc = "loop")
       => /\ pc' \in {"loop", "done"}
          /\ Bases' = Append(Bases, B_x0')
          /\ (move'.kind = "degenerate" \/ ~move'.acc)
               => (x0' = x0 /\ B_x0' = B_x0 /\ det_B_x0' = det_B_x0)
          /\ move'.kind = "degenerate" => ~move'.acc
          /\ move'.acc
               => /\ B_x0' \in TilesAt(x0') /\ Len(B_x0') = Len(Vectors)
                  /\ det_B_x0' = TileDet(Vectors, B_x0')
                  /\ det_B_x0' = move'.num]_vars

\* a proposal with a basis of a size other than r has been made from a chain
\* that had moved
DegenerateProposalWitness ==
  /\ fn = "zono_sampling" /\ move.kind = "degenerate" /\ Len(Bases) >= 3
  /\ Bases[Len(Bases)] = Bases[Len(Bases) - 1]
  /\ Bases[Len(Bases)] # Bases[1]

\* C16: in add_delete_sampler two consecutive recorded states are equal or
\* differ by one index added or one index removed; in basis_exchange_sampler
\* they are equal or differ by the replacement of one element of the state by
\* one element that was outside it.
LocalMoves ==
  \A i \in 1..(Len(samples) - 1) :
    LET A == Elems(samples[i])
        B == Elems(samples[i + 1])
    IN /\ fn = "add_delete" =>
            \/ samples[i + 1] = samples[i]
            \/ A \subseteq B /\ Cardinality(B \ A) = 1
                 /\ Len(samples[i + 1]) = Len(samples[i]) + 1
            \/ B \subseteq A /\ Cardinality(A \ B) = 1
                 /\ Len(samples[i + 1]) = Len(samples[i]) - 1
       /\ fn = "basis_exchange" =>
            \/ samples[i + 1] = samples[i]
            \/ /\ Len(samples[i + 1]) = Len(samples[i])
               /\ Cardinality(A \ B) = 1 /\ Cardinality(B \ A) = 1
               /\ Cardinality({j \in 1..Len(samples[i]) :
                                 samples[i + 1][j] # samples[i][j]}) = 1

\* basis_exchange_sampler has replaced one element of a state of size 2
LocalMovesWitness ==
  /\ fn = "basis_exchange" /\ pc = "done" /\ Len(s_init) = 2
  /\ \E i \in 1..(Len(samples) - 1) : samples[i + 1] # samples[i]

NoErrorAtBoundary ==
  (fn \in {"add_exchange_delete", "basis_exchange"} /\ samples # <<>>)
    => pc # "error"

\* C19: the loop of a discrete sampler eventually stops for every pair of
\* budgets nb_it_max >= 0, T_max >= 0: an iteration that stays in the loop
\* does so under a budget that runs out, either the iteration counter, which
\* it has incremented and found below nb_it_max, or the elapsed time, which
\* it has read and found below T_max.
LoopRunsOnABudget ==
  [][(fn \in Discrete /\ pc = "loop" /\ pc' = "loop")
       => \/ nb_it_max > 0 /\ it' = it + 1 /\ it' < nb_it_max
          \/ nb_it_max = 0 /\ T_max > 0 /\ clock' < T_max]_vars

====
